---- MODULE Spec2Model ----
(***************************************************************************)
(* A model of two parts of the repository:                                 *)
(*   - the SWC record normalizer, cell_record_range_clean (src/swcio.cpp), *)
(*     with cell_record::renumber and cell_record::check_consistency;      *)
(*   - the cell group time-stepping engine, mc_cell_group                  *)
(*     (mc_cell_group.hpp), with its event queue, event binner, sampler    *)
(*     map and lowered cell collaborators.                                 *)
(* Each part has its own specification (SpecClean, Spec); the variables of *)
(* the other part stay at their initial values.                            *)
(***************************************************************************)
EXTENDS Integers, Sequences, FiniteSets, TLC

(***************************************************************************)
(* Bounds of the model.                                                    *)
(***************************************************************************)
\* Longest input stream of records given to the normalizer.
MaxRecords == 3
\* Largest (zero-based) record id appearing in an input stream.
MaxId == 3
\* The latest time an advance can run to.
MaxTime == 2
\* Number of events the environment enqueues in a run of the event scenario.
MaxEvents == 2
\* Number of sampler association handles.
MaxHandles == 2
\* Number of add_sampler calls in a run of the sampling scenario.
MaxSamplers == 2
\* Number of threshold crossings the integrator records in a run.
MaxCrossings == 2

(***************************************************************************)
(* Small helpers.                                                          *)
(***************************************************************************)
Max(a, b) == IF a >= b THEN a ELSE b
Min(a, b) == IF a <= b THEN a ELSE b
Range(s) == {s[i] : i \in DOMAIN s}

\* Sequences over S of length 0..n.
SeqsUpTo(S, n) == UNION {[1..k -> S] : k \in 0..n}

(***************************************************************************)
(*                    PART I: the record normalizer                        *)
(***************************************************************************)

\* The largest value of the cell_record::kind enumeration
\* (undefined, soma, axon, dendrite, apical dendrite, fork point, end point,
\* custom).
custom == 7

\* A parsed record.  xyz stands for the position payload of the line: the
\* initial streams give every line a distinct payload, so that two records
\* with the same id can be told apart.
CellRecord(id, parent, type, r, xyz) ==
    [id |-> id, parent_id |-> parent, type |-> type, r |-> r, xyz |-> xyz]

\* A lenient check that lets a record be its own parent, for comparison.
check_consistency_self_parent(c) ==
    /\ ~(c.type < 0 \/ c.type > custom)
    /\ ~(c.id < 0)
    /\ ~(c.parent_id < -1)
    /\ ~(c.parent_id > c.id)
    /\ ~(c.r < 0)

\* cell_record::check_consistency: TRUE when no exception is thrown.
check_consistency(c) ==
    /\ ~(c.type < 0 \/ c.type > custom)
    /\ ~(c.id < 0)
    /\ ~(c.parent_id < -1)
    /\ ~(c.parent_id >= c.id)
    /\ ~(c.r < 0)

VARIABLES
    stream,     \* the records the raw reader yields, in input order
    rpos,       \* number of records of the stream consumed by the read loop
    cells_,     \* cell_record_range_clean::cells_
    ids,        \* the set of ids seen (std::unordered_set)
    num_trees,  \* number of records with parent -1 tested so far
    last_id,    \* id of the last inserted record
    needsort,   \* an out-of-order insertion was observed
    idmap,      \* renumbering map old id -> new id (std::map), a function
    next_id,    \* loop counter of the renumbering loop
    cpc         \* position in the constructor:
                \*   "read", "sort", "renumber", "done", "error"

cleanVars == <<stream, rpos, cells_, ids, num_trees, last_id, needsort,
               idmap, next_id, cpc>>

\* The empty std::map.
EmptyMap == [k \in {} |-> 0]

\* std::map::insert: no effect when the key is present.
MapInsert(m, k, v) ==
    IF k \in DOMAIN m THEN m ELSE [x \in DOMAIN m \cup {k} |-> IF x = k THEN v ELSE m[x]]

\* The state of the normalizer as one record, and the state at the start of
\* the constructor for a given stream.
CleanState(s) ==
    [stream |-> s, rpos |-> 0, cells_ |-> <<>>, ids |-> {}, num_trees |-> 0,
     last_id |-> -1, needsort |-> FALSE, idmap |-> EmptyMap, next_id |-> 0,
     cpc |-> "read"]

\* The records that pass the validity check of the cell_record constructor,
\* with ids up to MaxId and payload xyz; type and radius are fixed.
ValidRecords(xyz) ==
    {c \in [id : 0..MaxId, parent_id : -1..MaxId, type : {1}, r : {1}, xyz : {xyz}] :
        check_consistency(c)}

\* The input streams: line k carries payload k.
Streams ==
    UNION {{s \in [1..n -> UNION {ValidRecords(k) : k \in 1..n}] :
                \A k \in 1..n : s[k].xyz = k} : n \in 0..MaxRecords}

\* One iteration of the reading loop (swcio.cpp 186-202), or its end.
ReadRecordStep(st) ==
    IF st.rpos >= Len(st.stream)
    THEN [st EXCEPT !.cpc = "sort"]
    ELSE LET c == st.stream[st.rpos + 1]
             isroot == c.parent_id = -1
             trees == IF isroot THEN st.num_trees + 1 ELSE st.num_trees
         IN  IF isroot /\ trees > 1
             THEN \* only a single tree is allowed: break
                  [st EXCEPT !.num_trees = trees, !.cpc = "sort"]
             ELSE IF c.id \notin st.ids
                  THEN [st EXCEPT !.rpos = st.rpos + 1,
                                  !.num_trees = trees,
                                  !.ids = st.ids \cup {c.id},
                                  !.cells_ = Append(st.cells_, c),
                                  !.needsort = st.needsort \/ c.id < st.last_id,
                                  !.last_id = c.id]
                  ELSE [st EXCEPT !.rpos = st.rpos + 1, !.num_trees = trees]

\* No sorting, for comparison.
SortById_as_read(cs) == cs

\* std::sort of records with distinct ids, ordered by operator< (by id).
SortById(cs) ==
    [i \in 1..Len(cs) |->
        CHOOSE c \in Range(cs) :
            Cardinality({d \in Range(cs) : d.id < c.id}) = i - 1]

\* swcio.cpp 204-206.
SortStep(st) ==
    [st EXCEPT !.cells_ = IF st.needsort THEN SortById(st.cells_) ELSE st.cells_,
               !.cpc = "renumber"]

\* A renumbering that rewrites the parent only, for comparison.
Renumbered_keeps_id(c, new_id, m) ==
    [c EXCEPT !.parent_id = IF c.parent_id \in DOMAIN m THEN m[c.parent_id]
                            ELSE c.parent_id]

\* The record after the assignments of cell_record::renumber (swcio.cpp
\* 19-26), before its consistency check.
Renumbered(c, new_id, m) ==
    [c EXCEPT !.id = new_id,
              !.parent_id = IF c.parent_id \in DOMAIN m THEN m[c.parent_id]
                            ELSE c.parent_id]

\* One iteration of the renumbering loop (swcio.cpp 211-217), or its end.
RenumberStep(st) ==
    IF st.next_id >= Len(st.cells_)
    THEN [st EXCEPT !.cpc = "done"]
    ELSE LET c == st.cells_[st.next_id + 1]
             n == Renumbered(c, st.next_id, st.idmap)
         IN  IF c.id # st.next_id
             THEN IF check_consistency(n)
                  THEN [st EXCEPT !.cells_[st.next_id + 1] = n,
                                  !.idmap = MapInsert(st.idmap, c.id, st.next_id),
                                  !.next_id = st.next_id + 1]
                  ELSE \* std::invalid_argument leaves the constructor
                       [st EXCEPT !.cells_[st.next_id + 1] = n, !.cpc = "error"]
             ELSE [st EXCEPT !.next_id = st.next_id + 1]

\* The constructor run to its end from a state: the final state.
RECURSIVE RunClean(_)
RunClean(st) ==
    CASE st.cpc = "read"     -> RunClean(ReadRecordStep(st))
      [] st.cpc = "sort"     -> RunClean(SortStep(st))
      [] st.cpc = "renumber" -> RunClean(RenumberStep(st))
      [] OTHER               -> st

\* What the caller of the constructor observes: the records, or the error.
Outcome(st) == IF st.cpc = "error" THEN <<"error">> ELSE <<"ok", st.cells_>>

\* cell_record_range_clean(is) as a function of the stream.
CleanOutcome(s) == Outcome(RunClean(CleanState(s)))

CurrentClean ==
    [stream |-> stream, rpos |-> rpos, cells_ |-> cells_, ids |-> ids,
     num_trees |-> num_trees, last_id |-> last_id, needsort |-> needsort,
     idmap |-> idmap, next_id |-> next_id, cpc |-> cpc]

SetClean(st) ==
    /\ stream' = st.stream
    /\ rpos' = st.rpos
    /\ cells_' = st.cells_
    /\ ids' = st.ids
    /\ num_trees' = st.num_trees
    /\ last_id' = st.last_id
    /\ needsort' = st.needsort
    /\ idmap' = st.idmap
    /\ next_id' = st.next_id
    /\ cpc' = st.cpc


(***************************************************************************)
(*                    PART I-b: the record parser                          *)
(***************************************************************************)

\* Longest input given to the parser, in lines.
MaxLines == 3

\* Number of parse_record calls made on one parser.
MaxParseCalls == 4

\* The lines of an input.  A record line carries the values written in the
\* file (the id and the parent id are one-based there); a "short" line is
\* neither empty nor a comment and cannot be parsed into seven fields.
Line(kind, fid, ftype, fr, fparent) ==
    [kind |-> kind, fid |-> fid, ftype |-> ftype, fr |-> fr, fparent |-> fparent]

EmptyLine == Line("empty", 0, 0, 0, 0)

CommentLine == Line("comment", 0, 0, 0, 0)

ShortLine == Line("short", 0, 0, 0, 0)

\* A record line that parses into a valid record.
GoodLine == Line("record", 1, 1, 1, -1)

\* Record lines over field values on both sides of each validity bound.
RecordLines ==
    {Line("record", fid, ftype, fr, fparent) :
        fid \in 0..2, ftype \in {-1, 0, custom, custom + 1}, fr \in {-1, 0, 1},
        fparent \in -2..2}

\* The inputs: up to MaxLines lines, at most one of them an arbitrary record
\* line, with or without a newline after the last line (an input without
\* one ends in a line that is not empty).
ParseInputs ==
    LET base == SeqsUpTo({EmptyLine, CommentLine, ShortLine, GoodLine}, MaxLines)
        all  == base \cup {[b EXCEPT ![k] = l] : b \in base, k \in 1..MaxLines,
                                                l \in RecordLines}
    IN  {<<ls, nl>> \in all \X BOOLEAN :
            nl \/ (Len(ls) > 0 /\ ls[Len(ls)].kind # "empty")}

VARIABLES
    plines,       \* the lines of the input stream
    trailing_nl,  \* the last line is followed by a newline
    ppos,         \* number of lines the stream has given out
    eofbit,       \* is.eof()
    failbit,      \* is.fail()
    lineno_,      \* swc_parser::lineno_
    linebuff_,    \* swc_parser::linebuff_
    bufline,      \* position in the input of the line in linebuff_ (0: none)
    presult,      \* what the last parse_record call did
    pcalls,       \* number of parse_record calls made
    ppc           \* "off", or "ready" between calls

parseVars == <<plines, trailing_nl, ppos, eofbit, failbit, lineno_, linebuff_,
               bufline, presult, pcalls, ppc>>

\* starts_with(linebuff_, comment_prefix_) or linebuff_.empty() (128).
Skipped(line) == line.kind \in {"empty", "comment"}

\* A line count that leaves out the skipped lines, for comparison.
CountLine_records_only(n, line) == IF Skipped(line) THEN n ELSE n + 1

\* ++lineno_ (127), after a line was read into linebuff_.
CountLine(n, line) == n + 1

\* std::getline(is, linebuff_) (126) on a stream that is not at its end
\* yet: the next line, and eofbit when the input ends without a newline
\* after it; with no characters left the buffer is emptied and eofbit and
\* failbit are set.
GetLine(st) ==
    IF st.ppos < Len(st.plines)
    THEN [st EXCEPT !.ppos = st.ppos + 1,
                    !.linebuff_ = st.plines[st.ppos + 1],
                    !.bufline = st.ppos + 1,
                    !.eofbit = (st.ppos + 1 = Len(st.plines)) /\ ~st.trailing_nl]
    ELSE [st EXCEPT !.linebuff_ = EmptyLine, !.bufline = 0,
                    !.eofbit = TRUE, !.failbit = TRUE]

\* The loop that consumes empty and comment lines (124-130).
RECURSIVE SkipLines(_)
SkipLines(st) ==
    IF st.eofbit THEN st
    ELSE LET g == GetLine(st)
             n == [g EXCEPT !.lineno_ = CountLine(st.lineno_, g.linebuff_)]
         IN  IF ~Skipped(n.linebuff_) THEN n ELSE SkipLines(n)

\* swc_parser::parse_record(std::istringstream&) (158-174): the seven fields
\* are read, the ids are converted to zero-based (a parent of -1 is left as
\* it is) and the record is constructed, which checks its consistency.
ParseFields(line) ==
    IF line.kind # "record"
    THEN [status |-> "unparsed", rec |-> CellRecord(0, 0, 0, 0, 0)]
    ELSE LET parent_id == IF line.fparent # -1 THEN line.fparent - 1 ELSE line.fparent
             c == CellRecord(line.fid - 1, parent_id, line.ftype, line.fr, 0)
         IN  [status |-> IF check_consistency(c) THEN "ok" ELSE "invalid", rec |-> c]

\* The outcome of a parse_record call.
Outcome_of_call(kind, lineno, line, status, rec) ==
    [kind |-> kind, lineno |-> lineno, line |-> line, status |-> status, rec |-> rec]

NoOutcome == Outcome_of_call("none", 0, 0, "none", CellRecord(0, 0, 0, 0, 0))

\* swc_parser::parse_record(std::istream&, cell_record&) (122-156) from the
\* state st of the parser and its stream: the state afterwards with the
\* outcome of the call.
ParseRecordStep(st) ==
    LET s == SkipLines(st)
        none == CellRecord(0, 0, 0, 0, 0)
    IN  IF s.eofbit /\ Skipped(s.linebuff_)
        THEN \* last line is either empty or a comment: nothing is parsed
             [s EXCEPT !.presult = Outcome_of_call("nothing", s.lineno_, s.bufline, "none", none)]
        ELSE IF s.failbit
        THEN [s EXCEPT !.presult = Outcome_of_call("error", s.lineno_, s.bufline, "too long", none)]
        ELSE LET p == ParseFields(s.linebuff_)
             IN  IF p.status = "ok"
                 THEN [s EXCEPT !.presult = Outcome_of_call("record", s.lineno_, s.bufline, "ok", p.rec)]
                 ELSE \* swc_parse_error carrying lineno_
                      [s EXCEPT !.presult = Outcome_of_call("error", s.lineno_, s.bufline, p.status, p.rec)]

CurrentParse ==
    [plines |-> plines, trailing_nl |-> trailing_nl, ppos |-> ppos, eofbit |-> eofbit,
     failbit |-> failbit, lineno_ |-> lineno_, linebuff_ |-> linebuff_,
     bufline |-> bufline, presult |-> presult]

SetParse(st) ==
    /\ plines' = st.plines
    /\ trailing_nl' = st.trailing_nl
    /\ ppos' = st.ppos
    /\ eofbit' = st.eofbit
    /\ failbit' = st.failbit
    /\ lineno_' = st.lineno_
    /\ linebuff_' = st.linebuff_
    /\ bufline' = st.bufline
    /\ presult' = st.presult

\* A new parser on a new stream: no line read, nothing in the buffer.
ParseStart(ls, nl, p) ==
    /\ plines = ls /\ trailing_nl = nl /\ ppos = 0
    /\ eofbit = FALSE /\ failbit = FALSE
    /\ lineno_ = 0 /\ linebuff_ = EmptyLine /\ bufline = 0
    /\ presult = NoOutcome /\ pcalls = 0 /\ ppc = p

\* No parser is in use.
ParseOff == ParseStart(<<>>, TRUE, "off")

(***************************************************************************)
(*                    PART I-c: the morphology tree                        *)
(***************************************************************************)

\* Largest number of nodes in a parent-index array.
MaxNodes == 6

\* The parent-index arrays: position i + 1 holds the parent of node i; the
\* root is its own parent and parent[i] < i for i > 0.  The empty array is
\* allowed.
ParentIndexes ==
    UNION {{p \in [1..n -> 0..(MaxNodes - 1)] :
                /\ n > 0 => p[1] = 0
                /\ \A i \in 2..n : p[i] < i - 1} : n \in 0..MaxNodes}

VARIABLES
    parent_index,   \* the array the tree is constructed from
    branch_index,   \* the branch of every node, once the chains are merged
    tree_parents,   \* parent branch of every branch (the root's is itself)
    tree_children,  \* ordered list of child branches of every branch
    tpc             \* "off", "input", "merged", "built"

treeVars == <<parent_index, branch_index, tree_parents, tree_children, tpc>>

\* An empty array stands for a cell of a single compartment.
NormalizedIndex_as_given(p) == p

\* The array the tree is built from: an empty one is replaced by the
\* single-entry array {0}.
NormalizedIndex(p) == IF Len(p) = 0 THEN <<0>> ELSE p

\* Number of children of every node.
child_count(p) ==
    [i \in 1..Len(p) |-> Cardinality({j \in 2..Len(p) : p[j] = i - 1})]

\* A rule under which only the children of the root begin branches, for
\* comparison.
StartsBranch_below_root_only(p, j) == p[j] = 0

\* The non-root node at position j begins a new branch: it hangs off the
\* root, or it is one of several children of its parent.  Every other node
\* continues its parent's branch.
StartsBranch(p, j) == p[j] = 0 \/ child_count(p)[p[j] + 1] > 1

\* The branch of the node at position j: the root is branch 0, and branches
\* are numbered in the order of the nodes that begin them.
RECURSIVE BranchOf(_, _)
BranchOf(p, j) ==
    IF j = 1 THEN 0
    ELSE IF StartsBranch(p, j)
         THEN Cardinality({k \in 2..j : StartsBranch(p, k)})
         ELSE BranchOf(p, p[j] + 1)

\* Step 1 of the construction: the branch of every node.
MergeChains(p) == [j \in 1..Len(p) |-> BranchOf(p, j)]

\* The elements of a finite set of numbers in ascending order.
RECURSIVE Ascending(_)
Ascending(S) ==
    IF S = {} THEN <<>>
    ELSE LET m == CHOOSE x \in S : \A y \in S : x <= y
         IN  <<m>> \o Ascending(S \ {m})

\* The parent branch of every branch: the branch of the parent of its first
\* node; the root branch is its own parent.
BranchParents(p, bi) ==
    [b \in Range(bi) |->
        IF b = 0 THEN 0
        ELSE LET first == CHOOSE j \in 1..Len(p) :
                             bi[j] = b /\ \A k \in 1..(j - 1) : bi[k] # b
             IN  bi[p[first] + 1]]

\* Child lists that count the root's own parent entry, for comparison.
ChildBranches_with_sentinel(par, b) == Ascending({c \in DOMAIN par : par[c] = b})

\* The child branches of branch b: the root's entry for itself is no child.
ChildBranches(par, b) == Ascending({c \in DOMAIN par \ {0} : par[c] = b})

\* The tree constructed from a parent-index array (cell_tree's constructor).
TreeOf(p) ==
    LET q   == NormalizedIndex(p)
        bi  == MergeChains(q)
        par == BranchParents(q, bi)
    IN  [branch_index |-> bi, parents |-> par,
         children |-> [b \in DOMAIN par |-> ChildBranches(par, b)]]

\* cell_tree::num_branches and cell_tree::num_children.
num_branches == Cardinality(DOMAIN tree_parents)

num_children(b) == Len(tree_children[b])

\* No tree is under construction.
TreeOff ==
    /\ parent_index = <<>> /\ branch_index = <<>>
    /\ tree_parents = <<>> /\ tree_children = <<>> /\ tpc = "off"

(***************************************************************************)
(*                    PART II: the cell group engine                       *)
(***************************************************************************)

\* The group under study: two cells, with one target, one probe and one
\* spike source each (the recipe's counts).
gids_ == <<4, 7>>
rec_num_targets(gid) == 1
rec_num_probes(gid) == 1
rec_num_sources(gid) == 1
NCells == Len(gids_)

Member(gid, index) == [gid |-> gid, index |-> index]

\* "No value" of an optional time.
Nothing == -1

Times == 0..MaxTime

VARIABLES
    \* built by the constructor
    gid_index_map_,            \* gid -> local index (0-based)
    target_handle_divisions_,  \* prefix sums of the per-cell target counts
    target_handles_,           \* handles of the targets, by local position
    probe_map_,                \* probe id -> [handle, tag]
    spike_sources_,            \* global ids of the spike sources
    \* members
    lowered_,           \* the lowered cell: [time, tfinal, dt, spikes]
    spikes_,            \* accumulated spikes
    binner_,            \* [policy, bin_interval, last_event_times_]
    events_,            \* pending postsynaptic events (priority queue)
    sample_events_,     \* pending sample events (priority queue)
    sampler_map_,       \* handle -> [sched, sampler, probe_ids]
    \* advance(): position and locals
    pc,                 \* "idle", "drain", "schedule", "sample", "step",
                        \* "harvest", "crashed"; "off" in SpecClean
    tfinal, dt, tstart, ev_min_time,
    samplers,           \* the sampler table of this call
    first_sample_time,
    cell_max_time,
    requeue_sample_events,
    \* history variables
    epoch,              \* number of reset() calls so far
    next_ev,            \* ghost id of the next enqueued event
    added,              \* every lowered_.add_event call so far
    pending_at_call,    \* events_ at the start of the current advance
    calls,              \* sampler callback invocations of the current advance
    noinst,             \* associations without instants in the current advance
    crossed,            \* crossings recorded since spikes_ was last cleared
    last_pred,          \* the predicate given to the last add_sampler call
    budget              \* what the environment may still do in this run

tableVars == <<gid_index_map_, target_handle_divisions_, target_handles_,
               probe_map_, spike_sources_>>
memberVars == <<lowered_, spikes_, binner_, events_, sample_events_, sampler_map_>>
localVars == <<tfinal, dt, tstart, ev_min_time, samplers, first_sample_time,
               cell_max_time, requeue_sample_events>>
ghostVars == <<epoch, next_ev, added, pending_at_call, calls, noinst, crossed,
               last_pred, budget>>
groupVars == <<tableVars, memberVars, pc, localVars, ghostVars>>

vars == <<cleanVars, parseVars, treeVars, groupVars>>

(***************************************************************************)
(* The constructor (mc_cell_group 39-67).                                  *)
(***************************************************************************)

\* gid_index_map_[gids_[i]] = i, 0-based.
BuildGidIndexMap == [g \in Range(gids_) |-> (CHOOSE i \in 1..NCells : gids_[i] = g) - 1]

\* util::make_partition over the per-cell target counts: divisions[0] = 0,
\* divisions[i+1] = divisions[i] + num_targets(gids_[i]).  (Sequence
\* positions are 1-based here: position k holds divisions[k-1].)
RECURSIVE SumTargets(_)
SumTargets(n) == IF n = 0 THEN 0 ELSE SumTargets(n - 1) + rec_num_targets(gids_[n])
BuildTargetHandlePartition == [k \in 1..(NCells + 1) |-> SumTargets(k - 1)]

\* lowered_.initialize fills target_handles_ and probe_map_ with opaque
\* handles: target handle 100+k for the k-th target, probe handle 200+10*i
\* +j and tag j for probe j of cell i.
InitTargetHandles == [k \in 1..SumTargets(NCells) |-> 100 + (k - 1)]
ProbeIds ==
    UNION {{Member(gids_[i], j) : j \in 0..(rec_num_probes(gids_[i]) - 1)} : i \in 1..NCells}
InitProbeMap ==
    [p \in ProbeIds |-> [handle |-> 200 + 10 * BuildGidIndexMap[p.gid] + p.index,
                         tag |-> p.index]]

\* spike_sources_: for every gid in order, for every lid.
RECURSIVE BuildSpikeSources(_)
BuildSpikeSources(n) ==
    IF n = 0 THEN <<>>
    ELSE BuildSpikeSources(n - 1) \o
         [l \in 1..rec_num_sources(gids_[n]) |-> Member(gids_[n], l - 1)]

(***************************************************************************)
(* Lookups.                                                                *)
(***************************************************************************)

\* gid_to_index (283-287).
gid_to_index(gid) == gid_index_map_[gid]

\* A lookup that ignores the target, for comparison.
get_target_handle_first(id) == target_handles_[1]

\* get_target_handle (271-273).
get_target_handle(id) ==
    target_handles_[target_handle_divisions_[gid_to_index(id.gid) + 1] + id.index + 1]

(***************************************************************************)
(* The lowered cell, an opaque integrator: every cell has its own time;    *)
(* a step moves every cell that has not reached tfinal forward by at most  *)
(* dt, and may record threshold crossings.                                 *)
(***************************************************************************)
LoweredInit == [time |-> [i \in 1..NCells |-> 0], tfinal |-> 0, dt |-> 0, spikes |-> <<>>]

min_time(l) == CHOOSE t \in Range(l.time) : \A u \in Range(l.time) : t <= u
max_time(l) == CHOOSE t \in Range(l.time) : \A u \in Range(l.time) : t >= u
state_synchronized(l) == \A i, j \in 1..NCells : l.time[i] = l.time[j]
integration_complete(l) == \A i \in 1..NCells : l.time[i] >= l.tfinal
setup_integration(l, tf, d) == [l EXCEPT !.tfinal = tf, !.dt = d]
lowered_clear_spikes(l) == [l EXCEPT !.spikes = <<>>]

\* The times the cells can have after one step: the cells integrate
\* independently and progress at different rates, none by more than dt or
\* past tfinal, and a step moves at least one cell.
StepTimes(l) ==
    {t \in [1..NCells -> Times] :
        /\ \A i \in 1..NCells :
              IF l.time[i] >= l.tfinal THEN t[i] = l.time[i]
              ELSE l.time[i] <= t[i] /\ t[i] <= Min(l.time[i] + l.dt, l.tfinal)
        /\ \E i \in 1..NCells : l.time[i] < t[i]}

\* The crossings a step to times t can record: at most one per step, of a
\* source on a cell that moved, stamped with the time that cell reached.
StepCrossings(l, t) ==
    {[index |-> k - 1, time |-> t[gid_to_index(spike_sources_[k].gid) + 1]] :
        k \in {k \in 1..Len(spike_sources_) :
                 LET i == gid_to_index(spike_sources_[k].gid) + 1
                 IN  t[i] > l.time[i]}}

(***************************************************************************)
(* The event queues: priority queues ordered by time, ties in any order.   *)
(***************************************************************************)

\* The events pop_if_before(t_until) can return: a head of the queue, when
\* its time is before t_until.
PopIfBefore(q, t_until) ==
    {e \in q : e.time < t_until /\ \A f \in q : e.time <= f.time}

\* time_if_before(t_until): the time of the head if it is before t_until.
TimeIfBefore(q, t_until) ==
    IF \E e \in q : e.time < t_until
    THEN (CHOOSE e \in q : \A f \in q : e.time <= f.time).time
    ELSE Nothing

(***************************************************************************)
(* The event binner.                                                       *)
(***************************************************************************)
NoTimes == [g \in {} |-> 0]

event_binner(policy, bin_interval) ==
    [policy |-> policy, bin_interval |-> bin_interval, last_event_times_ |-> NoTimes]

binner_reset(b) == [b EXCEPT !.last_event_times_ = NoTimes]

\* bin(id, t, t_min): the binned time, never before t_min, and the binner
\* afterwards.
binner_bin(b, id, t, t_min) ==
    LET last == b.last_event_times_
        t_binned ==
            CASE b.policy = "none" -> t
              [] b.policy = "regular" ->
                    IF b.bin_interval > 0
                    THEN (t \div b.bin_interval) * b.bin_interval
                    ELSE t
              [] b.policy = "following" ->
                    IF id \in DOMAIN last /\ t - last[id] < b.bin_interval
                    THEN last[id]
                    ELSE t
        newlast ==
            IF b.policy = "following"
            THEN [g \in DOMAIN last \cup {id} |-> IF g = id THEN t_binned ELSE last[g]]
            ELSE last
    IN  [time |-> Max(t_binned, t_min), binner |-> [b EXCEPT !.last_event_times_ = newlast]]

(***************************************************************************)
(* Schedules: an ascending list of instants and a cursor.                  *)
(***************************************************************************)
Schedule(times) == [times |-> times, start_index |-> 0]

schedule_reset(s) == [s EXCEPT !.start_index = 0]

\* events(t0, t1): the instants in [t0, t1) not before the cursor, and the
\* schedule with its cursor moved past them.
schedule_events(s, t0, t1) ==
    LET rest == (s.start_index + 1)..Len(s.times)
    IN  [ts |-> {s.times[k] : k \in {k \in rest : t0 <= s.times[k] /\ s.times[k] < t1}},
         sched |-> [s EXCEPT !.start_index =
                        Max(s.start_index,
                            Cardinality({k \in 1..Len(s.times) : s.times[k] < t1}))]]

(***************************************************************************)
(* What the environment can ask for.                                       *)
(***************************************************************************)
Handles == 1..MaxHandles
DtChoices == {1, 2}
Weights == {5}
Targets ==
    UNION {{Member(gids_[i], j) : j \in 0..(rec_num_targets(gids_[i]) - 1)} : i \in 1..NCells}
EventChoices == [target : Targets, time : Times, weight : Weights]

\* Binning policies and intervals.
BinnerChoices == {<<"none", 0>>, <<"regular", 2>>, <<"following", 2>>}

\* Schedules: one instant at time 0, or an instant at every time.
ScheduleChoices == {<<0>>, [k \in 1..MaxTime |-> k - 1]}

\* Probe predicates, each given by the set of cell members it accepts; the
\* last accepts only a probe of a cell that is not in the group.
PredicateChoices == {ProbeIds, {Member(gids_[1], 0)}, {Member(99, 0)}}

\* The keys of probe_map_ in the map's iteration order.
SeqOfSet(S) ==
    [k \in 1..Cardinality(S) |->
        CHOOSE p \in S : Cardinality({q \in S : q.gid < p.gid \/
                                      (q.gid = p.gid /\ q.index < p.index)}) = k - 1]

\* The orders in which the associations of a sampler map can be visited.
Orders(S) == {o \in [1..Cardinality(S) -> S] : \A i, j \in DOMAIN o : i # j => o[i] # o[j]}

(***************************************************************************)
(* Initial state: after construction.                                      *)
(***************************************************************************)
InitGroupWith(b, p) ==
    /\ gid_index_map_ = BuildGidIndexMap
    /\ target_handle_divisions_ = BuildTargetHandlePartition
    /\ target_handles_ = InitTargetHandles
    /\ probe_map_ = InitProbeMap
    /\ spike_sources_ = BuildSpikeSources(NCells)
    /\ lowered_ = LoweredInit
    /\ spikes_ = <<>>
    /\ binner_ = event_binner("none", 0)
    /\ events_ = {}
    /\ sample_events_ = {}
    /\ sampler_map_ = [h \in {} |-> 0]
    /\ pc = p
    /\ tfinal = 0 /\ dt = 0 /\ tstart = 0 /\ ev_min_time = 0
    /\ samplers = <<>>
    /\ first_sample_time = Nothing
    /\ cell_max_time = 0
    /\ requeue_sample_events = <<>>
    /\ epoch = 0
    /\ next_ev = 1
    /\ added = {}
    /\ pending_at_call = {}
    /\ calls = {}
    /\ noinst = {}
    /\ crossed = <<>>
    /\ last_pred = {}
    /\ budget = b

\* The normalizer is not running.
CleanOff ==
    /\ stream = <<>> /\ rpos = 0 /\ cells_ = <<>> /\ ids = {} /\ num_trees = 0
    /\ last_id = -1 /\ needsort = FALSE /\ idmap = EmptyMap /\ next_id = 0
    /\ cpc = "off"

\* The group does not exist.
GroupOff ==
    InitGroupWith([events |-> 0, samplers |-> 0, crossings |-> 0, resets |-> 0], "off")

(***************************************************************************)
(* Operations other than advance.  Each runs only between advances.        *)
(***************************************************************************)
\* enqueue_events (188-192).
EnqueueEvents(evs) ==
    /\ pc = "idle"
    /\ Len(evs) > 0 /\ Len(evs) <= budget.events
    /\ events_' = events_ \cup
                    {[target |-> evs[k].target, time |-> evs[k].time,
                      weight |-> evs[k].weight, id |-> next_ev + k - 1,
                      epoch |-> epoch] : k \in 1..Len(evs)}
    /\ next_ev' = next_ev + Len(evs)
    /\ budget' = [budget EXCEPT !.events = @ - Len(evs)]
    /\ UNCHANGED <<cleanVars, parseVars, treeVars,
                   tableVars, lowered_, spikes_, binner_, sample_events_, sampler_map_,
                   pc, localVars, epoch, added, pending_at_call, calls, noinst, crossed, last_pred>>

\* A reset that leaves the schedules where they are, for comparison.
reset_samplers_map_keeps_cursors(m) == m

\* reset_samplers (278-280): the sampler map after every schedule is reset.
reset_samplers_map(m) == [h \in DOMAIN m |-> [m[h] EXCEPT !.sched = schedule_reset(@)]]

\* reset (73-79).
Reset ==
    /\ pc = "idle"
    /\ budget.resets > 0
    /\ spikes_' = <<>>
    /\ events_' = {}
    /\ sample_events_' = {}
    /\ sampler_map_' = reset_samplers_map(sampler_map_)
    /\ binner_' = binner_reset(binner_)
    /\ lowered_' = LoweredInit
    /\ epoch' = epoch + 1
    /\ crossed' = <<>>
    /\ budget' = [budget EXCEPT !.resets = @ - 1]
    /\ UNCHANGED <<cleanVars, parseVars, treeVars,
                   tableVars, pc, localVars, next_ev, added, pending_at_call,
                   calls, noinst, last_pred>>

\* set_binning_policy (81-83).
SetBinningPolicy(policy, bin_interval) ==
    /\ pc = "idle"
    /\ binner_' = event_binner(policy, bin_interval)
    /\ UNCHANGED <<cleanVars, parseVars, treeVars,
                   tableVars, lowered_, spikes_, events_, sample_events_, sampler_map_,
                   pc, localVars, epoch, next_ev, added, pending_at_call, calls, noinst, crossed, last_pred,
                   budget>>

\* clear_spikes (198-200).
ClearSpikes ==
    /\ pc = "idle"
    /\ spikes_' = <<>>
    /\ crossed' = <<>>
    /\ UNCHANGED <<cleanVars, parseVars, treeVars,
                   tableVars, lowered_, binner_, events_, sample_events_,
                   sampler_map_, pc, localVars, epoch, next_ev, added, pending_at_call,
                   calls, noinst, last_pred, budget>>

\* A probe set taken from the predicate alone, for comparison.
Probeset_unfiltered(probe_ids) == SeqOfSet(probe_ids)

\* The probe set add_sampler resolves (209-210): the keys of probe_map_ that
\* satisfy the predicate, in the map's order.
Probeset(probe_ids) == SeqOfSet({p \in DOMAIN probe_map_ : p \in probe_ids})

\* sampler_map_.add (213).  The callback fn is named by the handle it is
\* registered under.
AddSamplerMap_unchecked(h, probe_ids, sched) ==
    [k \in DOMAIN sampler_map_ \cup {h} |->
        IF k = h THEN [sched |-> sched, sampler |-> h, probe_ids |-> Probeset(probe_ids)]
        ELSE sampler_map_[k]]

\* The sampler map after add_sampler (212-214).
AddSamplerMap(h, probe_ids, sched) ==
    IF Probeset(probe_ids) # <<>>
    THEN AddSamplerMap_unchecked(h, probe_ids, sched)
    ELSE sampler_map_

\* add_sampler (206-215).  The caller issues handles that are not in use;
\* handles being interchangeable keys, it issues the smallest free one.
AddSampler(h, probe_ids, sched) ==
    /\ pc = "idle"
    /\ budget.samplers > 0
    /\ h \notin DOMAIN sampler_map_
    /\ \A k \in Handles \ DOMAIN sampler_map_ : h <= k
    /\ sampler_map_' = AddSamplerMap(h, probe_ids, sched)
    /\ budget' = [budget EXCEPT !.samplers = @ - 1]
    /\ last_pred' = probe_ids
    /\ UNCHANGED <<cleanVars, parseVars, treeVars,
                   tableVars, lowered_, spikes_, binner_, events_, sample_events_,
                   pc, localVars, epoch, next_ev, added, pending_at_call, calls, noinst,
                   crossed>>

\* remove_sampler (217-219).
RemoveSampler(h) ==
    /\ pc = "idle"
    /\ sampler_map_' = [k \in DOMAIN sampler_map_ \ {h} |-> sampler_map_[k]]
    /\ UNCHANGED <<cleanVars, parseVars, treeVars,
                   tableVars, lowered_, spikes_, binner_, events_, sample_events_,
                   pc, localVars, epoch, next_ev, added, pending_at_call, calls, noinst, crossed, last_pred,
                   budget>>

\* remove_all_samplers (221-223).
RemoveAllSamplers ==
    /\ pc = "idle"
    /\ sampler_map_' = [k \in {} |-> 0]
    /\ UNCHANGED <<cleanVars, parseVars, treeVars,
                   tableVars, lowered_, spikes_, binner_, events_, sample_events_,
                   pc, localVars, epoch, next_ev, added, pending_at_call, calls, noinst, crossed, last_pred,
                   budget>>

(***************************************************************************)
(* advance (85-186), step by step.                                         *)
(***************************************************************************)

\* 86-90: the entry of advance(tfinal, dt), called to move time forward.
AdvanceBegin(tf, d) ==
    /\ pc = "idle"
    /\ state_synchronized(lowered_)
    /\ tf > min_time(lowered_)
    /\ tfinal' = tf
    /\ dt' = d
    /\ tstart' = min_time(lowered_)
    /\ ev_min_time' = max_time(lowered_)
    /\ pc' = "drain"
    /\ pending_at_call' = events_
    /\ UNCHANGED <<cleanVars, parseVars, treeVars,
                   tableVars, memberVars, samplers, first_sample_time, cell_max_time,
                   requeue_sample_events, epoch, next_ev, added, calls, noinst, crossed, last_pred, budget>>

\* A draining loop bounded by the integrator's time, for comparison.
DrainUntil_floor == ev_min_time

\* 91: the bound of the draining loop.
DrainUntil == tfinal

\* An event handed on with its own delivery time, for comparison.
BinEvent_unbinned(ev) == [time |-> ev.time, binner |-> binner_]

\* 93: the time an event is handed to the integrator with, and the binner
\* afterwards.
BinEvent(ev) == binner_bin(binner_, ev.target.gid, ev.time, ev_min_time)

\* 91-95: one iteration of the draining loop.
DrainEvent ==
    /\ pc = "drain"
    /\ \E ev \in PopIfBefore(events_, DrainUntil) :
          LET handle == get_target_handle(ev.target)
              binned == BinEvent(ev)
          IN  /\ events_' = events_ \ {ev}
              /\ binner_' = binned.binner
              /\ added' = added \cup
                    {[id |-> ev.id, time |-> binned.time, handle |-> handle,
                      weight |-> ev.weight, ev_time |-> ev.time,
                      at |-> max_time(lowered_),
                      ev_epoch |-> ev.epoch, epoch |-> epoch]}
    /\ UNCHANGED <<cleanVars, parseVars, treeVars,
                   tableVars, lowered_, spikes_, sample_events_, sampler_map_, pc,
                   localVars, epoch, next_ev, pending_at_call, calls, noinst, crossed, last_pred,
                   budget>>

\* 108-125: the scheduling loop over the associations in the order o.  acc
\* holds the sampler table, the sample events pushed, the sampler map (the
\* schedules move their cursors), the associations skipped and the probe map
\* (operator[] inserts a key it does not find).  A sample event is
\* {sampler_index, time} (122); for_assoc, for_probe and since are history
\* fields: the association and probe it was scheduled for, and the tstart of
\* the advance call that scheduled it.
RECURSIVE ScheduleLoop(_, _, _)
ScheduleLoop(o, k, acc) ==
    IF k > Len(o) THEN acc
    ELSE LET h == o[k]
             assoc == acc.map[h]
             r == schedule_events(assoc.sched, tstart, tfinal)
             map2 == [acc.map EXCEPT ![h].sched = r.sched]
             n == Len(assoc.probe_ids)
             base == Len(acc.samplers)
             missing == {p \in Range(assoc.probe_ids) : p \notin DOMAIN acc.probes}
             probes2 == [p \in DOMAIN acc.probes \cup missing |->
                            IF p \in DOMAIN acc.probes THEN acc.probes[p]
                            ELSE [handle |-> 0, tag |-> 0]]
         IN  IF r.ts = {}
             THEN ScheduleLoop(o, k + 1,
                    [acc EXCEPT !.map = map2, !.noinst = @ \cup {h}])
             ELSE ScheduleLoop(o, k + 1,
                    [samplers |-> acc.samplers \o
                        [j \in 1..n |->
                            [handle |-> probes2[assoc.probe_ids[j]].handle,
                             tag |-> probes2[assoc.probe_ids[j]].tag,
                             probe_id |-> assoc.probe_ids[j],
                             sampler |-> assoc.sampler]],
                     events |-> acc.events \cup
                        {[sampler_index |-> base + j - 1, time |-> t,
                          for_assoc |-> h, for_probe |-> assoc.probe_ids[j],
                          since |-> tstart] :
                            j \in 1..n, t \in r.ts},
                     map |-> map2,
                     noinst |-> acc.noinst,
                     probes |-> probes2])

\* A loop that is left at once, for comparison.
LoopHead_leave(l, fst) == "harvest"

\* A loop without an exit, for comparison.
LoopHead_no_exit(l, fst) == IF fst # Nothing THEN "sample" ELSE "step"

\* 129, 133: the head of the integration loop: where control goes next.
LoopHead(l, fst) ==
    IF integration_complete(l) THEN "harvest"
    ELSE IF fst # Nothing THEN "sample"
    ELSE "step"

\* 97-127 (and 135-137 when the loop starts with sampling): the draining
\* loop has ended; set up the integration and schedule the samples.
ScheduleSamples ==
    /\ pc = "drain"
    /\ PopIfBefore(events_, DrainUntil) = {}
    /\ \E o \in Orders(DOMAIN sampler_map_) :
          LET acc == ScheduleLoop(o, 1,
                        [samplers |-> <<>>, events |-> sample_events_,
                         map |-> sampler_map_, noinst |-> {}, probes |-> probe_map_])
              l == setup_integration(lowered_, tfinal, dt)
              fst == TimeIfBefore(acc.events, tfinal)
          IN  /\ lowered_' = l
              /\ samplers' = acc.samplers
              /\ sample_events_' = acc.events
              /\ sampler_map_' = acc.map
              /\ noinst' = acc.noinst
              /\ probe_map_' = acc.probes
              /\ first_sample_time' = fst
              /\ requeue_sample_events' = <<>>
              /\ cell_max_time' = IF LoopHead(l, fst) = "sample" THEN max_time(l)
                                  ELSE cell_max_time
              /\ pc' = LoopHead(l, fst)
    /\ UNCHANGED <<cleanVars, parseVars, treeVars,
                   gid_index_map_, target_handle_divisions_, target_handles_,
                   spike_sources_, spikes_, binner_, events_, tfinal, dt, tstart,
                   ev_min_time, epoch, next_ev, added, pending_at_call, calls,
                   budget, crossed, last_pred>>

\* 139: samplers[m->sampler_index].  Inside the table, the entry; outside
\* it the read is out of bounds: of an empty vector it faults, of a
\* non-empty one it faults or yields whatever lies behind the table, which
\* can be an entry of any probe with any registered callback.  A fault ends
\* the process.
Fault == [fault |-> TRUE, handle |-> 0, tag |-> 0, probe_id |-> Member(0, 0), sampler |-> 0]

Entry(e) == [fault |-> FALSE, handle |-> e.handle, tag |-> e.tag,
             probe_id |-> e.probe_id, sampler |-> e.sampler]

SamplerEntries(m) ==
    IF m.sampler_index < Len(samplers)
    THEN {Entry(samplers[m.sampler_index + 1])}
    ELSE IF Len(samplers) = 0 THEN {Fault}
    ELSE {Fault} \cup
         {Entry([handle |-> probe_map_[p].handle, tag |-> probe_map_[p].tag,
                 probe_id |-> p, sampler |-> h]) :
            p \in DOMAIN probe_map_, h \in Handles}

\* A test that never defers a sample, for comparison.
NotReached_never(cell_time, m) == FALSE

\* 143: this cell hasn't reached this sample time yet.
NotReached(cell_time, m) == cell_time < m.time

\* 138-152: one iteration of the sample draining loop.
TakeSample ==
    /\ pc = "sample"
    /\ \E m \in PopIfBefore(sample_events_, cell_max_time) :
       \E s \in SamplerEntries(m) :
          /\ sample_events_' = sample_events_ \ {m}
          /\ IF s.fault
             THEN /\ pc' = "crashed"
                  /\ UNCHANGED <<requeue_sample_events, calls>>
             ELSE LET cell_time == lowered_.time[gid_to_index(s.probe_id.gid) + 1]
                  IN  /\ pc' = pc
                      /\ IF NotReached(cell_time, m)
                         THEN /\ requeue_sample_events' = Append(requeue_sample_events, m)
                              /\ UNCHANGED calls
                         ELSE /\ calls' = calls \cup
                                    {[sampler |-> s.sampler, probe_id |-> s.probe_id,
                                      tag |-> s.tag, n |-> 1, time |-> cell_time,
                                      event |-> m]}
                              /\ UNCHANGED requeue_sample_events
    /\ UNCHANGED <<cleanVars, parseVars, treeVars,
                   tableVars, lowered_, spikes_, binner_, events_, sampler_map_,
                   tfinal, dt, tstart, ev_min_time, samplers, first_sample_time,
                   cell_max_time, epoch, next_ev, added, pending_at_call,
                   noinst, crossed, last_pred, budget>>

\* 153-156: the draining loop has ended; put the deferred events back.
RequeueSamples ==
    /\ pc = "sample"
    /\ PopIfBefore(sample_events_, cell_max_time) = {}
    /\ sample_events_' = sample_events_ \cup Range(requeue_sample_events)
    /\ first_sample_time' = TimeIfBefore(sample_events_', tfinal)
    /\ pc' = "step"
    /\ UNCHANGED <<cleanVars, parseVars, treeVars,
                   tableVars, lowered_, spikes_, binner_, events_, sampler_map_,
                   tfinal, dt, tstart, ev_min_time, samplers, cell_max_time,
                   requeue_sample_events, ghostVars>>

\* 166, then 129-137: one step of the integrator, and the loop head.
StepIntegration ==
    /\ pc = "step"
    /\ \E t \in StepTimes(lowered_) :
       \E cs \in {<<>>} \cup (IF budget.crossings > 0
                              THEN {<<c>> : c \in StepCrossings(lowered_, t)}
                              ELSE {}) :
          LET l == [lowered_ EXCEPT !.time = t, !.spikes = @ \o cs]
          IN  /\ lowered_' = l
              /\ crossed' = crossed \o cs
              /\ budget' = [budget EXCEPT !.crossings = @ - Len(cs)]
              /\ pc' = LoopHead(l, first_sample_time)
              /\ cell_max_time' = IF LoopHead(l, first_sample_time) = "sample"
                                  THEN max_time(l) ELSE cell_max_time
              /\ requeue_sample_events' =
                    IF LoopHead(l, first_sample_time) = "sample" THEN <<>>
                    ELSE requeue_sample_events
    /\ UNCHANGED <<cleanVars, parseVars, treeVars,
                   tableVars, spikes_, binner_, events_, sample_events_, sampler_map_,
                   tfinal, dt, tstart, ev_min_time, samplers, first_sample_time,
                   epoch, next_ev, added, pending_at_call, calls, noinst, last_pred>>

\* 180: the spike generated for a crossing.
MakeSpike(c) == [source |-> spike_sources_[c.index + 1], time |-> c.time]

\* A harvest that leaves the crossing buffer as it is, for comparison.
AfterHarvest_keep(l) == l

\* 184: the integrator after the crossings are copied out.
AfterHarvest(l) == lowered_clear_spikes(l)

\* 179-186: copy out the crossings as spikes, clear them, and return.  The
\* locals of the call go out of scope.
HarvestSpikes ==
    /\ pc = "harvest"
    /\ spikes_' = spikes_ \o [k \in 1..Len(lowered_.spikes) |-> MakeSpike(lowered_.spikes[k])]
    /\ lowered_' = AfterHarvest(lowered_)
    /\ pc' = "idle"
    /\ tfinal' = 0 /\ dt' = 0 /\ tstart' = 0 /\ ev_min_time' = 0
    /\ samplers' = <<>>
    /\ first_sample_time' = Nothing
    /\ cell_max_time' = 0
    /\ requeue_sample_events' = <<>>
    /\ pending_at_call' = {}
    /\ calls' = {}
    /\ noinst' = {}
    /\ UNCHANGED <<cleanVars, parseVars, treeVars,
                   tableVars, binner_, events_, sample_events_, sampler_map_,
                   epoch, next_ev, added, budget, crossed, last_pred>>

(***************************************************************************)
(* The specifications of the cell group.  A run has a budget: the number   *)
(* of events the environment enqueues, of add_sampler calls, of threshold  *)
(* crossings the integrator records, and of reset calls.                   *)
(***************************************************************************)
AdvanceSteps ==
    \/ \E tf \in Times, d \in DtChoices : AdvanceBegin(tf, d)
    \/ DrainEvent
    \/ ScheduleSamples
    \/ StepIntegration
    \/ HarvestSpikes

SamplingSteps ==
    \/ TakeSample
    \/ RequeueSamples

Next ==
    \/ \E evs \in SeqsUpTo(EventChoices, 2) : EnqueueEvents(evs)
    \/ Reset
    \/ \E b \in BinnerChoices : SetBinningPolicy(b[1], b[2])
    \/ ClearSpikes
    \/ \E h \in Handles, p \in PredicateChoices, s \in ScheduleChoices :
          AddSampler(h, p, Schedule(s))
    \/ \E h \in Handles : RemoveSampler(h)
    \/ RemoveAllSamplers
    \/ AdvanceSteps
    \/ SamplingSteps

\* Every operation, in short runs.
Init ==
    /\ CleanOff
    /\ ParseOff
    /\ TreeOff
    /\ InitGroupWith([events |-> 1, samplers |-> 1, crossings |-> MaxCrossings,
                      resets |-> 1], "idle")

Spec == Init /\ [][Next]_vars

\* Event delivery: a group no sampler is attached to, with more events.
NextEvents ==
    \/ \E evs \in SeqsUpTo(EventChoices, 2) : EnqueueEvents(evs)
    \/ Reset
    \/ \E b \in BinnerChoices : SetBinningPolicy(b[1], b[2])
    \/ AdvanceSteps

InitEvents ==
    /\ CleanOff
    /\ ParseOff
    /\ TreeOff
    /\ InitGroupWith([events |-> MaxEvents, samplers |-> 0, crossings |-> 0,
                      resets |-> 1], "idle")

SpecEvents == InitEvents /\ [][NextEvents]_vars

\* Sampling: several associations, with the default binning policy.
NextSampling ==
    \/ \E evs \in SeqsUpTo(EventChoices, 2) : EnqueueEvents(evs)
    \/ Reset
    \/ \E h \in Handles, p \in PredicateChoices, s \in ScheduleChoices :
          AddSampler(h, p, Schedule(s))
    \/ \E h \in Handles : RemoveSampler(h)
    \/ RemoveAllSamplers
    \/ AdvanceSteps
    \/ SamplingSteps

InitSampling ==
    /\ CleanOff
    /\ ParseOff
    /\ TreeOff
    /\ InitGroupWith([events |-> 1, samplers |-> MaxSamplers, crossings |-> 0,
                      resets |-> 1], "idle")

SpecSampling == InitSampling /\ [][NextSampling]_vars

\* The steps of the body of advance (91-186).  A call of advance runs on
\* its own thread of control until it returns, so a step of the body that
\* stays possible is taken.
AdvanceBody ==
    \/ DrainEvent
    \/ ScheduleSamples
    \/ TakeSample
    \/ RequeueSamples
    \/ StepIntegration
    \/ HarvestSpikes

\* Termination: events and one association, no reset, and a call of advance
\* that keeps running once it has begun.
NextTermination ==
    \/ \E evs \in SeqsUpTo(EventChoices, 2) : EnqueueEvents(evs)
    \/ \E h \in Handles, p \in PredicateChoices, s \in ScheduleChoices :
          AddSampler(h, p, Schedule(s))
    \/ AdvanceSteps
    \/ SamplingSteps

InitTermination ==
    /\ CleanOff
    /\ ParseOff
    /\ TreeOff
    /\ InitGroupWith([events |-> 1, samplers |-> 1, crossings |-> 0,
                      resets |-> 0], "idle")

SpecTermination == InitTermination /\ [][NextTermination]_vars /\ WF_vars(AdvanceBody)

(***************************************************************************)
(* The normalizer as a state machine.                                      *)
(***************************************************************************)
InitClean == \E s \in Streams :
    /\ stream = s
    /\ rpos = 0
    /\ cells_ = <<>>
    /\ ids = {}
    /\ num_trees = 0
    /\ last_id = -1
    /\ needsort = FALSE
    /\ idmap = EmptyMap
    /\ next_id = 0
    /\ cpc = "read"
    /\ GroupOff
    /\ ParseOff
    /\ TreeOff

ReadRecord ==
    /\ cpc = "read"
    /\ SetClean(ReadRecordStep(CurrentClean))
    /\ UNCHANGED <<groupVars, parseVars, treeVars>>

SortCells ==
    /\ cpc = "sort"
    /\ SetClean(SortStep(CurrentClean))
    /\ UNCHANGED <<groupVars, parseVars, treeVars>>

RenumberCell ==
    /\ cpc = "renumber"
    /\ SetClean(RenumberStep(CurrentClean))
    /\ UNCHANGED <<groupVars, parseVars, treeVars>>

NextClean == ReadRecord \/ SortCells \/ RenumberCell

SpecClean == InitClean /\ [][NextClean]_vars

(***************************************************************************)
(* The parser as a state machine: successive parse_record calls on one     *)
(* parser and one stream.                                                  *)
(***************************************************************************)
InitParse == \E in \in ParseInputs :
    /\ ParseStart(in[1], in[2], "ready")
    /\ CleanOff
    /\ TreeOff
    /\ GroupOff

\* One call of parse_record(is, cell); the caller may call again after an
\* error.
ParseRecord ==
    /\ ppc = "ready"
    /\ pcalls < MaxParseCalls
    /\ SetParse(ParseRecordStep(CurrentParse))
    /\ pcalls' = pcalls + 1
    /\ UNCHANGED <<ppc, cleanVars, treeVars, groupVars>>

NextParse == ParseRecord

SpecParse == InitParse /\ [][NextParse]_vars

(***************************************************************************)
(* The construction of a morphology tree as a state machine.               *)
(***************************************************************************)
InitTree == \E p \in ParentIndexes :
    /\ parent_index = p
    /\ branch_index = <<>>
    /\ tree_parents = <<>>
    /\ tree_children = <<>>
    /\ tpc = "input"
    /\ CleanOff
    /\ ParseOff
    /\ GroupOff

\* Step 1: merge the chains of single-child nodes into branches.
MergeBranches ==
    /\ tpc = "input"
    /\ branch_index' = MergeChains(NormalizedIndex(parent_index))
    /\ tpc' = "merged"
    /\ UNCHANGED <<parent_index, tree_parents, tree_children, cleanVars, parseVars, groupVars>>

\* Step 2: record the parent branch and the child branches of every branch.
LinkBranches ==
    /\ tpc = "merged"
    /\ LET par == BranchParents(NormalizedIndex(parent_index), branch_index)
       IN  /\ tree_parents' = par
           /\ tree_children' = [b \in DOMAIN par |-> ChildBranches(par, b)]
    /\ tpc' = "built"
    /\ UNCHANGED <<parent_index, branch_index, cleanVars, parseVars, groupVars>>

NextTree == MergeBranches \/ LinkBranches

SpecTree == InitTree /\ [][NextTree]_vars

(***************************************************************************)
(* Claims about the cell group.                                            *)
(***************************************************************************)

\* A step in which advance returns.
AdvanceReturns == pc = "harvest" /\ pc' = "idle"

\* The ids of the events passed to the integrator so far.
AddedIds(log) == {a.id : a \in log}

\* C1 (SpecEvents): a pending event has not been passed to the integrator;
\* when advance(tfinal, dt) returns, every event still pending has delivery
\* time >= tfinal and every event that was pending at the call with delivery
\* time < tfinal has been passed to the integrator; and between resets an
\* event leaves the pending queue only by being passed to the integrator, so
\* an event left queued is passed by the next advance that reaches past it.
C1_EventsBeforeTfinalDelivered ==
    /\ [](\A e \in events_ : e.id \notin AddedIds(added))
    /\ [][AdvanceReturns =>
            /\ \A e \in events_' : e.time >= tfinal
            /\ \A e \in pending_at_call :
                  e.time < tfinal => e.id \in AddedIds(added')]_vars
    /\ [][\A e \in events_ :
            e \notin events_' => (e.id \in AddedIds(added') \/ epoch' # epoch)]_vars

\* C1 witness: an advance has returned that passed a later-enqueued event to
\* the integrator and left an earlier-enqueued one in the queue.
C1_Witness ==
    /\ pc = "idle"
    /\ \E a \in added, e \in events_ : e.id < a.id /\ e.time >= min_time(lowered_)

\* C2 (SpecEvents): every event passed to the integrator carries a time not
\* earlier than the integrator's time at the start of that advance call.
C2_BinnedTimeNotBeforeFloor ==
    \A a \in added : a.time >= a.at

\* C2 witness: an event enqueued with a delivery time earlier than the
\* integrator's time was passed on under a binning policy.
C2_Witness ==
    \E a \in added : a.ev_time < a.at /\ binner_.policy # "none"

\* The global identifier of the spike source with local index k, from the
\* recipe: sources are numbered cell by cell.
RECURSIVE SumSources(_)
SumSources(n) == IF n = 0 THEN 0 ELSE SumSources(n - 1) + rec_num_sources(gids_[n])
SourceOf(k) ==
    LET i == CHOOSE i \in 1..NCells : SumSources(i - 1) <= k /\ k < SumSources(i)
    IN  Member(gids_[i], k - SumSources(i - 1))

\* C3 (Spec): between advances the spike list holds, once each and in
\* order, the crossings the integrator recorded since the list was last
\* cleared, each with the global id of its source and its time; and the
\* integrator's crossing buffer is empty.
C3_SpikesHarvestedOnce ==
    pc = "idle" =>
        /\ spikes_ = [k \in 1..Len(crossed) |->
                        [source |-> SourceOf(crossed[k].index), time |-> crossed[k].time]]
        /\ lowered_.spikes = <<>>

\* C3 witness: two advances each harvested a crossing, the second one of the
\* second cell.
C3_Witness ==
    /\ pc = "idle"
    /\ Len(spikes_) = 2
    /\ spikes_[1].time < spikes_[2].time
    /\ spikes_[2].source = Member(gids_[2], 0)

\* C4 (SpecSampling): in an advance call, an association whose schedule
\* yields no instant in [tstart, tfinal) has its callback invoked zero times.
C4_NoInstantNoCallback ==
    \A c \in calls : c.sampler \notin noinst

\* C5 (Spec): after reset() the spike list, the event queue and the sample
\* event queue are empty and the integrator, the binner and every schedule
\* are reset; the associations, the binning policy and the handle tables are
\* unchanged; no event enqueued before a reset is passed to the integrator
\* after it.
C5_Reset ==
    /\ [][epoch' # epoch =>
            /\ spikes_' = <<>>
            /\ events_' = {}
            /\ sample_events_' = {}
            /\ lowered_' = LoweredInit
            /\ binner_'.last_event_times_ = NoTimes
            /\ \A h \in DOMAIN sampler_map_' : sampler_map_'[h].sched.start_index = 0
            /\ DOMAIN sampler_map_' = DOMAIN sampler_map_
            /\ \A h \in DOMAIN sampler_map_ :
                  /\ sampler_map_'[h].sched.times = sampler_map_[h].sched.times
                  /\ sampler_map_'[h].sampler = sampler_map_[h].sampler
                  /\ sampler_map_'[h].probe_ids = sampler_map_[h].probe_ids
            /\ binner_'.policy = binner_.policy
            /\ binner_'.bin_interval = binner_.bin_interval
            /\ tableVars' = tableVars]_vars
    /\ [](\A a \in added : a.ev_epoch = a.epoch)

\* C5 witness: an event was enqueued and an association registered, a reset
\* dropped the event, and an advance after the reset ran with the
\* association still registered and the binning policy still set.
C5_Witness ==
    /\ pc = "idle"
    /\ epoch = 1
    /\ next_ev = 2 /\ events_ = {} /\ added = {}
    /\ min_time(lowered_) > 0
    /\ sampler_map_ # <<>>
    /\ binner_.policy = "following"

\* C6 (SpecSampling): an add_sampler call whose predicate no probe id of the
\* group satisfies leaves the sampler map as it was; every live association
\* has a non-empty probe set made of keys of the probe map.
C6_ProbeSetsNonEmpty ==
    /\ [](\A h \in DOMAIN sampler_map_ :
            /\ sampler_map_[h].probe_ids # <<>>
            /\ Range(sampler_map_[h].probe_ids) \subseteq DOMAIN probe_map_)
    /\ [][(budget'.samplers # budget.samplers /\
           ~ \E p \in DOMAIN probe_map_ : p \in last_pred')
            => sampler_map_' = sampler_map_]_vars

\* C6 witness: an association is live after an advance, and the last
\* add_sampler call had a predicate that matches no probe of the group.
C6_Witness ==
    /\ pc = "idle"
    /\ last_pred = {Member(99, 0)}
    /\ sampler_map_ # <<>>
    /\ min_time(lowered_) > 0

(***************************************************************************)
(* Claims about the record normalizer (checked under SpecClean).           *)
(***************************************************************************)

\* The record of the input stream an output record comes from: the payload
\* of line k is k.
Original(c) == stream[c.xyz]

\* C7: when the normalizer completes without error, the i-th output record
\* (counting from 0) has id i, whatever the input ids were.
C7_DenseIds ==
    cpc = "done" => \A i \in 1..Len(cells_) : cells_[i].id = i - 1

\* C7 witness: a completed run that had to sort and to renumber a record
\* across a gap in the ids.
C7_Witness ==
    /\ cpc = "done"
    /\ needsort
    /\ Len(cells_) = 3
    /\ \E i \in 1..Len(cells_) : Original(cells_[i]).id > cells_[i].id

\* C8: when the normalizer completes without error, each output record
\* whose original parent is p # -1 has as parent the new id of the retained
\* record whose original id was p, and a root keeps parent -1.
C8_ParentsRewritten ==
    cpc = "done" =>
        \A i \in 1..Len(cells_) :
            LET p == Original(cells_[i]).parent_id
            IN  IF p = -1
                THEN cells_[i].parent_id = -1
                ELSE \E j \in 1..Len(cells_) :
                        /\ Original(cells_[j]).id = p
                        /\ cells_[i].parent_id = cells_[j].id

\* The stream with every record removed whose id repeats the id of an
\* earlier record.
RemoveLaterDuplicates(s) ==
    LET keep == {k \in 1..Len(s) : \A j \in 1..(k - 1) : s[j].id # s[k].id}
        RECURSIVE Pick(_)
        Pick(k) == IF k > Len(s) THEN <<>>
                   ELSE IF k \in keep THEN <<s[k]>> \o Pick(k + 1)
                   ELSE Pick(k + 1)
    IN  Pick(1)

\* C9: the outcome of the normalizer on a stream equals its outcome on the
\* stream with every later duplicate removed.
C9_DuplicatesDropped ==
    cpc \in {"done", "error"} =>
        Outcome(CurrentClean) = CleanOutcome(RemoveLaterDuplicates(stream))

\* The root a record of the stream leads to by following parent ids (ids
\* are distinct in the streams this is used on); -2 when the chain leaves
\* the stream.
RECURSIVE RootOf(_, _)
RootOf(s, c) ==
    IF c.parent_id = -1 THEN c.id
    ELSE IF \E k \in 1..Len(s) : s[k].id = c.parent_id
         THEN RootOf(s, s[CHOOSE k \in 1..Len(s) : s[k].id = c.parent_id])
         ELSE -2

\* The stream holds the records of exactly two trees: distinct ids, two
\* roots, every record leading to one of them.
TwoTrees(s) ==
    /\ \A j, k \in 1..Len(s) : j # k => s[j].id # s[k].id
    /\ Cardinality({k \in 1..Len(s) : s[k].parent_id = -1}) = 2
    /\ \A k \in 1..Len(s) : RootOf(s, s[k]) # -2

\* The id of the root that comes first in the stream.
FirstRoot(s) ==
    s[CHOOSE k \in 1..Len(s) :
        /\ s[k].parent_id = -1
        /\ \A j \in 1..(k - 1) : s[j].parent_id # -1].id

\* C10: on a stream of two trees the normalizer completes and its output
\* holds exactly the records of the first tree.
C10_FirstTreeOnly ==
    (cpc \in {"done", "error"} /\ TwoTrees(stream)) =>
        /\ cpc = "done"
        /\ {c.xyz : c \in Range(cells_)} =
           {k \in 1..Len(stream) : RootOf(stream, stream[k]) = FirstRoot(stream)}

\* A canonical sequence: ids 0..n-1 in order, every parent before its
\* children, a single root, no duplicates.
Canonical(s) ==
    /\ \A i \in 1..Len(s) : s[i].id = i - 1
    /\ \A i \in 1..Len(s) : s[i].parent_id >= -1 /\ s[i].parent_id < s[i].id
    /\ Cardinality({i \in 1..Len(s) : s[i].parent_id = -1}) = Min(Len(s), 1)

\* C11: normalizing a canonical sequence completes without error and yields
\* the identical sequence, and normalizing the output of a successful
\* normalization returns it unchanged.
C11_CanonicalUnchanged ==
    /\ (cpc \in {"done", "error"} /\ Canonical(stream)) =>
            (cpc = "done" /\ cells_ = stream)
    /\ cpc = "done" => CleanOutcome(cells_) = <<"ok", cells_>>

\* C11 witness: a canonical sequence of three records was normalized.
C11_Witness ==
    /\ cpc = "done"
    /\ Canonical(stream)
    /\ Len(stream) = 3
    /\ cells_ = stream

(***************************************************************************)
(* Claims about the parser.                                                *)
(***************************************************************************)

\* The last call constructed a record from seven parsed fields.
Constructed == presult.status \in {"ok", "invalid"}

\* C12: the validity check fails exactly when the type code is below 0 or
\* above the custom code, the id is negative, the parent id is less than
\* -1, the parent id is greater than or equal to the id, or the radius is
\* negative; a record with none of these is accepted.
C12_ValidityCheck ==
    Constructed =>
        LET c == presult.rec
        IN  (presult.status = "invalid") <=>
                \/ c.type < 0
                \/ c.type > custom
                \/ c.id < 0
                \/ c.parent_id < -1
                \/ c.parent_id >= c.id
                \/ c.r < 0

\* C12 witness: a record that fails only because it is its own parent was
\* rejected.
C12_Witness ==
    /\ presult.status = "invalid"
    /\ presult.kind = "error"
    /\ presult.rec.id = 1 /\ presult.rec.parent_id = 1
    /\ presult.rec.type = 0 /\ presult.rec.r = 0

\* C13: a parse_record call that reads a line that is neither empty nor a
\* comment and that cannot be parsed into seven fields, or whose record
\* fails the validity check, fails with a parse error whose line number is
\* the 1-based position of that line in the stream, in any of the
\* successive calls on the parser; no other call fails.
C13_ErrorLineNumber ==
    LET malformed(k) ==
            /\ plines[k].kind \notin {"empty", "comment"}
            /\ \/ plines[k].kind = "short"
               \/ plines[k].fid - 1 < 0
               \/ plines[k].ftype < 0 \/ plines[k].ftype > custom
               \/ plines[k].fr < 0
               \/ plines[k].fparent < -1
               \/ (plines[k].fparent > 0 /\ plines[k].fparent - 1 >= plines[k].fid - 1)
    IN  /\ presult.kind = "error" =>
            /\ presult.line \in 1..Len(plines)
            /\ malformed(presult.line)
            /\ presult.lineno = presult.line
        /\ (presult.kind # "none" /\ bufline > 0 /\ malformed(bufline)) =>
            (presult.kind = "error" /\ presult.lineno = bufline)

\* C13 witness: the second call on a parser failed at line 3, after a line
\* that was skipped.
C13_Witness ==
    /\ pcalls = 2
    /\ presult.kind = "error"
    /\ presult.lineno = 3
    /\ plines[2].kind \in {"empty", "comment"}
    /\ plines[3].kind = "short"

(***************************************************************************)
(* Claims about the morphology tree.                                       *)
(***************************************************************************)

\* The tree constructed from p has nb branches, and branch b has kids[b + 1]
\* children: the form of the expectations of the cell_tree tests.
Expect(p, nb, kids) ==
    LET t == TreeOf(p)
    IN  /\ Cardinality(DOMAIN t.parents) = nb
        /\ \A b \in 0..(Len(kids) - 1) : Len(t.children[b]) = kids[b + 1]

\* C14: the tree constructed from an empty or a single-entry parent-index
\* array has exactly 1 branch and num_children(0) = 0 (as do the trees of
\* cases 1 and 2 of the from_parent_index test).
C14_TrivialTree ==
    /\ (tpc = "built" /\ Len(parent_index) <= 1) =>
            (num_branches = 1 /\ num_children(0) = 0)
    /\ Expect(<<0>>, 1, <<0>>)
    /\ Expect(<<>>, 1, <<0>>)

\* C14 witness: a tree was constructed from the empty array.
C14_Witness ==
    /\ tpc = "built"
    /\ parent_index = <<>>
    /\ branch_index = <<0>>

\* The sum of num_children(b) over the branches 0..(n - 1).
RECURSIVE SumChildren(_)
SumChildren(n) == IF n = 0 THEN 0 ELSE num_children(n - 1) + SumChildren(n - 1)

\* C15: the tree constructed from a non-empty parent-index array with
\* parent[i] < i for i > 0 has at most as many branches as the array has
\* nodes, and the sum of num_children(b) over all branches b is
\* num_branches() - 1.
C15_BranchCounts ==
    (tpc = "built" /\ Len(parent_index) >= 1) =>
        /\ num_branches <= Len(parent_index)
        /\ DOMAIN tree_children = 0..(num_branches - 1)
        /\ SumChildren(num_branches) = num_branches - 1

\* C15 witness: a tree with fewer branches than nodes in which some branch
\* other than the root has two children.
C15_Witness ==
    /\ tpc = "built"
    /\ Len(parent_index) = MaxNodes
    /\ num_branches < Len(parent_index)
    /\ \E b \in DOMAIN tree_children : b # 0 /\ num_children(b) = 2

\* C16: in the tree constructed from an array of at least two nodes the root
\* alone is branch 0; a non-root node whose parent is the root or has two or
\* more children begins a new branch, and every other node is in its
\* parent's branch; num_branches() is 1 plus the number of nodes that begin
\* a branch and num_children(0) is the number of nodes whose parent is node
\* 0.  The trees of the cell_tree tests have the branches and children the
\* tests expect.
C16_BranchStructure ==
    LET p == parent_index
        n == Len(parent_index)
        kids(i) == {k \in 2..n : p[k] = i}
        begins(j) == p[j] = 0 \/ Cardinality(kids(p[j])) >= 2
    IN  /\ (tpc = "built" /\ n >= 2) =>
            /\ branch_index[1] = 0
            /\ \A j \in 2..n : branch_index[j] # 0
            /\ \A j \in 2..n :
                  IF begins(j)
                  THEN \A k \in 1..(j - 1) : branch_index[k] # branch_index[j]
                  ELSE branch_index[j] = branch_index[p[j] + 1]
            /\ num_branches = 1 + Cardinality({j \in 2..n : begins(j)})
            /\ num_children(0) = Cardinality(kids(0))
        /\ Expect(<<0, 0, 1, 2, 0, 4>>, 3, <<2, 0, 0>>)
        /\ Expect(<<0, 0, 1, 2, 0, 4, 0, 6, 7, 8>>, 4, <<3, 0, 0, 0>>)
        /\ Expect(<<0, 0, 1, 2, 0, 4, 0, 6, 7, 8, 9, 8, 11, 12>>, 6, <<3, 0, 0, 2, 0, 0>>)
        /\ Expect(<<0, 0, 1, 1>>, 4, <<1, 2, 0, 0>>)
        /\ Expect(<<0, 0, 0, 1, 1>>, 5, <<2, 2, 0, 0, 0>>)
        /\ Expect(<<0, 0, 0, 1, 1, 4, 4>>, 7, <<2, 2, 0, 0, 2, 0, 0>>)

\* C16 witness: the tree of the array {0, 0, 1, 2, 2}: node 2 continues the
\* branch of node 1, and nodes 3 and 4 begin branches below it.
C16_Witness ==
    /\ tpc = "built"
    /\ parent_index = <<0, 0, 1, 2, 2>>
    /\ branch_index = <<0, 1, 1, 2, 3>>

(***************************************************************************)
(* Further claims about the cell group.                                    *)
(***************************************************************************)

\* C17 (Spec): after construction the gid-to-index map, the target-handle
\* partition, the target-handle array, the probe map and the spike-source
\* list are modified by no operation: each step leaves them as they are, so
\* they keep the values the constructor gave them (the probe-map lookup in
\* advance inserts no key).
C17_TablesReadOnly ==
    /\ [][tableVars' = tableVars]_vars
    /\ [](/\ gid_index_map_ = BuildGidIndexMap
          /\ target_handle_divisions_ = BuildTargetHandlePartition
          /\ target_handles_ = InitTargetHandles
          /\ probe_map_ = InitProbeMap
          /\ spike_sources_ = BuildSpikeSources(NCells))

\* C17 witness: in an advance on a group with a registered association the
\* scheduling loop has looked up the probe map and a callback was invoked.
C17_Witness ==
    /\ pc = "sample"
    /\ samplers # <<>>
    /\ calls # {}
    /\ DOMAIN probe_map_ = DOMAIN InitProbeMap

\* The time reached by the cell that owns probe p.
CellTimeOf(p) == lowered_.time[gid_to_index(p.gid) + 1]

\* C18 (SpecSampling): during advance a callback is invoked for a sample
\* event only when the cell that owns the probe has reached the event's
\* time, with exactly one record, whose time is the time that cell reached;
\* a sample event popped while the cell has not reached its time produces
\* no callback in that pass and is put back in the sample queue unchanged.
C18_SampleWhenReached ==
    /\ [][calls' # calls /\ pc = "sample" =>
            \E c \in calls' \ calls :
                /\ calls' = calls \cup {c}
                /\ c.event \in sample_events_ \ sample_events_'
                /\ c.n = 1
                /\ c.time = CellTimeOf(c.probe_id)
                /\ c.time >= c.event.time
                /\ requeue_sample_events' = requeue_sample_events]_vars
    /\ [][Len(requeue_sample_events') > Len(requeue_sample_events) =>
            \E m \in sample_events_ \ sample_events_' :
                /\ requeue_sample_events' = Append(requeue_sample_events, m)
                /\ calls' = calls
                /\ m.sampler_index < Len(samplers) =>
                      CellTimeOf(samplers[m.sampler_index + 1].probe_id) < m.time]_vars
    /\ [][pc = "sample" /\ pc' = "step" =>
            Range(requeue_sample_events) \subseteq sample_events_']_vars

\* C18 witness: in one pass a sample event of a cell that lags behind was
\* deferred, and a callback was invoked for an event whose time the cell
\* had reached.
C18_Witness ==
    /\ pc = "sample"
    /\ requeue_sample_events # <<>>
    /\ \E c \in calls : c.event.time > 0 /\ c.time >= c.event.time

\* C19 (SpecSampling): when the integration loop of an advance has ended,
\* every instant in [tstart, tfinal) of every live association that has one
\* has produced exactly one callback invocation for each of its probes, and
\* the sample-event queue is empty.
C19_EveryInstantSampled ==
    pc = "harvest" =>
        /\ \A h \in DOMAIN sampler_map_ \ noinst :
           \A p \in Range(sampler_map_[h].probe_ids) :
           \A t \in Range(sampler_map_[h].sched.times) :
              (tstart <= t /\ t < tfinal) =>
                 Cardinality({c \in calls : /\ c.sampler = h
                                            /\ c.probe_id = p
                                            /\ c.event.time = t}) = 1
        /\ sample_events_ = {}

\* C20 (Spec): within one advance call the pending events before tfinal are
\* passed to the integrator first, then the samples are scheduled, then the
\* integration loop runs, then the spikes are harvested: no add_event
\* occurs once the draining has ended, the integrator steps only while the
\* integration is incomplete, no spike is copied out before the integrator
\* reports integration complete, and advance returns only then, with the
\* cells synchronized.
C20_AdvanceOrder ==
    /\ [][\/ pc' = pc
          \/ pc = "idle" /\ pc' = "drain"
          \/ pc = "drain" /\ pc' \in {"sample", "step", "harvest"}
          \/ pc = "sample" /\ pc' \in {"step", "crashed"}
          \/ pc = "step" /\ pc' \in {"sample", "harvest"}
          \/ pc = "harvest" /\ pc' = "idle"]_vars
    /\ [][added' # added => pc = "drain" /\ pc' = "drain"]_vars
    /\ [][pc = "drain" /\ pc' # "drain" =>
            /\ \A e \in events_ : e.time >= tfinal
            /\ \A e \in pending_at_call : e.time < tfinal => e.id \in AddedIds(added)
            /\ lowered_.time = [i \in 1..NCells |-> tstart]]_vars
    /\ [][samplers' # samplers =>
            \/ pc = "drain" /\ pc' # "drain"
            \/ AdvanceReturns]_vars
    /\ [][lowered_'.time # lowered_.time /\ epoch' = epoch =>
            pc = "step" /\ ~integration_complete(lowered_)]_vars
    /\ [][Len(spikes_') > Len(spikes_) =>
            pc = "harvest" /\ integration_complete(lowered_)]_vars
    /\ [][AdvanceReturns =>
            /\ integration_complete(lowered_)
            /\ state_synchronized(lowered_')]_vars

\* C20 witness: an advance that passed an event to the integrator, invoked
\* a callback and recorded a crossing is about to harvest its spikes.
C20_Witness ==
    /\ pc = "harvest"
    /\ \E a \in added : a.epoch = epoch
    /\ calls # {}
    /\ lowered_.spikes # <<>>

\* The handle the constructor's tables hold for a target.
HandleOfTarget(t) ==
    target_handles_[target_handle_divisions_[gid_index_map_[t.gid] + 1] + t.index + 1]

\* The ids given to the events enqueued so far.
EnqueuedIds == 1..(next_ev - 1)

\* C21 (Spec): while reset has not been called, every enqueued event is
\* either still pending or has been passed to the integrator, never both;
\* a step passes an event on only by taking it out of the pending queue,
\* with the handle of its target and its weight, and only an event that had
\* not been passed on before; the queue grows only by enqueue_events; and
\* when advance(tfinal, dt) returns, no event with delivery time < tfinal is
\* pending, so each such event has been passed on exactly once.
C21_EventsPassedOnce ==
    /\ [](epoch = 0 =>
            \A id \in EnqueuedIds :
                Cardinality({e \in events_ : e.id = id}) +
                Cardinality({a \in added : a.id = id}) = 1)
    /\ [][epoch' = 0 =>
            /\ Cardinality(added' \ added) = Cardinality(events_ \ events_')
            /\ \A a \in added' \ added :
                  /\ a.id \notin AddedIds(added)
                  /\ \E e \in events_ \ events_' :
                        /\ e.id = a.id
                        /\ a.weight = e.weight
                        /\ a.handle = HandleOfTarget(e.target)
            /\ added \subseteq added'
            /\ events_' \ events_ # {} =>
                  \E evs \in SeqsUpTo(EventChoices, 2) : EnqueueEvents(evs)]_vars
    /\ [][(AdvanceReturns /\ epoch = 0) =>
            \A id \in EnqueuedIds :
                (\E e \in events_' : e.id = id /\ e.time >= tfinal)
                \/ Cardinality({a \in added' : a.id = id}) = 1]_vars

\* C21 witness: with no reset and a sampler registered, an event to the
\* second cell that one advance left pending was passed on by a later one.
C21_Witness ==
    /\ epoch = 0 /\ pc = "idle"
    /\ budget.samplers = 0
    /\ \E a \in added :
          /\ a.ev_time > 0 /\ a.at > 0 /\ a.at <= a.ev_time
          /\ a.handle = HandleOfTarget(Member(gids_[2], 0))

\* A step of the sample draining loop that pops the sample event m.
Popped(m) == pc = "sample" /\ m \in sample_events_ /\ m \notin sample_events_'

\* C22 (SpecSampling): every sample event popped from the sample queue was
\* scheduled in the advance call that pops it, its sampler index is a slot
\* of the sampler table of that call, and the slot holds the probe and the
\* callback of the association the event was scheduled for.
C22_SampleIndexInTable ==
    [][\A m \in sample_events_ :
          Popped(m) =>
             /\ m.since = tstart
             /\ m.sampler_index < Len(samplers)
             /\ samplers[m.sampler_index + 1].probe_id = m.for_probe
             /\ samplers[m.sampler_index + 1].sampler = sampler_map_[m.for_assoc].sampler]_vars

\* C23 (SpecTermination): a call of advance ends, by returning or by a
\* fatal fault, so the event draining loop, every sample draining loop and
\* the integration loop are left; and within one pass of the
\* integration loop no sample event is popped that this pass has already
\* deferred, the deferred events being put back only when the draining loop
\* of the pass has ended.
C23_AdvanceTerminates ==
    /\ (pc \in {"drain", "sample", "step", "harvest"}) ~> (pc \in {"idle", "crashed"})
    /\ [][\A m \in sample_events_ :
             Popped(m) => m \notin Range(requeue_sample_events)]_vars
    /\ [][(pc = "sample" /\ pc' = "sample") =>
             Range(requeue_sample_events) \cap sample_events_' = {}]_vars

\* C23 witness: a sample draining loop has ended and put back an event that
\* it had deferred and that it would pop again, the event being before the
\* time the loop drains up to.
C23_Witness ==
    /\ pc = "step"
    /\ requeue_sample_events # <<>>
    /\ Range(requeue_sample_events) \subseteq sample_events_
    /\ \E m \in Range(requeue_sample_events) : m.time < cell_max_time

(***************************************************************************)
(* The normalizer's output as a whole.                                     *)
(***************************************************************************)

\* C24 (SpecClean): when the normalizer completes without error on a
\* non-empty input, exactly one output record has parent -1 and it is the
\* first one, every other record has a parent id from 0 up to but not
\* including its own id, and the records are in ascending order of their
\* original ids.
C24_OutputCanonical ==
    (cpc = "done" /\ Len(stream) > 0) =>
        /\ Len(cells_) > 0
        /\ {i \in 1..Len(cells_) : cells_[i].parent_id = -1} = {1}
        /\ \A i \in 2..Len(cells_) :
              0 <= cells_[i].parent_id /\ cells_[i].parent_id < cells_[i].id
        /\ \A i, j \in 1..Len(cells_) :
              i < j => Original(cells_[i]).id < Original(cells_[j]).id

\* C24 witness: a completed run on an input of three records that was out
\* of order and whose root did not come first.
C24_Witness ==
    /\ cpc = "done"
    /\ needsort
    /\ Len(cells_) = 3
    /\ stream[1].parent_id # -1

====
